---- MODULE Spec2Model ----
(***************************************************************************)
(* A model of the SQL dump processor (core/sql_dump_processor.py): the     *)
(* character-level Scanner (_process_line), the statement Assembler and    *)
(* Restorer (_restore_to_db, run), the Batched Executor (_execute_batch,   *)
(* _extract_and_execute_inserts), the Splitter (_split_dump), the Analyzer *)
(* (_analyze_dump), the Validator (_validate_dump), the Extractor          *)
(* (_extract_data, core/parse.py) and the checks of the command line       *)
(* (main.py, _validate_args).                                              *)
(*                                                                         *)
(* Text is a sequence of one-character strings.  The Python False of        *)
(* in_string is the empty string (both are falsy); otherwise in_string     *)
(* holds the opening delimiter.  Indices are 1-based: i < len(line) in     *)
(* the code is i <= Len(line) here.                                        *)
(***************************************************************************)
EXTENDS Integers, Sequences, FiniteSets, TLC

\* ---------------------------------------------------------------- bounds
\* longest physical line fed to the character-level Scanner specification
MaxLineLen == 4

\* the characters of the input of the Assembler specification, one line
\* terminator for each line included
MaxAsmChars == 6
\* the same for the input of the run specification
MaxRunChars == 9
\* the INSERT statements of one table handed to the Batched Executor
MaxMatches == 4
\* the largest --batch-size tried
MaxBatchSize == 3

\* the characters of the input of the Splitter specification
MaxSplitChars == 5
\* the largest --lines-per-file tried
MaxLinesPerFile == 3

\* the largest magnitude of a negative --lines-per-file tried
MaxNegLinesPerFile == 1

\* the lines of the input of the Extractor specification
MaxExtractLines == 2
\* the value tuples of one INSERT statement of that input
MaxTuples == 2
\* the columns of one INSERT statement of that input
MaxColumns == 2

\* the tokens of the input of the Analyzer and Validator specifications, one
\* line terminator for each line included
MaxSqlTokens == 6

\* the tokens of the input of the scoped restore specification, one line
\* terminator for each line included
MaxScopedChars == 12

\* the characters of the input of the escape specification, one line
\* terminator for each line included
MaxEscChars == 6

\* the characters of the input of a split run of the files specification
MaxFilesChars == 3

\* the characters of the input of the chunk specification
MaxChunkChars == 4

\* the longest values string handed to parse_values alone
MaxParseLen == 4

\* the tokens of the input of the counter specification, one line terminator
\* for each line included
MaxCounterTokens == 5

\* main.py: the default of --batch-size
DefaultBatchSize == 1000
\* main.py: the default of --lines-per-file
DefaultLinesPerFile == 100000

\* ------------------------------------------------------------- alphabet
\* the backquote character U+0060, under a name: a TLA+ string literal cannot
\* spell it
Backquote == "BQ"
Quotes == {"'", "\"", Backquote}
Chars == {";", "'", "\"", Backquote, "\\", "/", "*", "-", "a", " "}
Whitespace == {" "}

RECURSIVE SeqsOfLen(_, _)
SeqsOfLen(S, n) ==
    IF n = 0 THEN {<<>>} ELSE {Append(s, c) : s \in SeqsOfLen(S, n - 1), c \in S}

SeqsUpTo(S, n) == UNION {SeqsOfLen(S, k) : k \in 0..n}

ScanLines == SeqsUpTo(Chars, MaxLineLen)

AsmChars == {";", "'", "\\", "/", "*", "-", "a"}
\* AsmLines[n]: the lines of n characters
AsmLines[n \in 0..(MaxAsmChars - 1)] ==
    IF n = 0 THEN {<<>>} ELSE {Append(s, c) : s \in AsmLines[n - 1], c \in AsmChars}

RunChars == {"a", ";"}
RunLines[n \in 0..(MaxRunChars - 1)] ==
    IF n = 0 THEN {<<>>} ELSE {Append(s, c) : s \in RunLines[n - 1], c \in RunChars}

\* the input of the Analyzer and of the Validator is a text of tokens: the
\* keyword phrases the code searches for (one of them in lower case), two
\* table names, the quote, the comment dashes and the statement terminator
Keywords == {"CREATE TABLE ", "INSERT INTO ", "insert into ", "INSERT IGNORE INTO "}
TableNames == {"t", "u"}
SqlTokens == Keywords \cup TableNames \cup {"'", "--", ";"}
SqlLines[n \in 0..(MaxSqlTokens - 1)] ==
    IF n = 0 THEN {<<>>} ELSE {Append(s, c) : s \in SqlLines[n - 1], c \in SqlTokens}

\* the characters of the lines read so far, their line terminators included
RECURSIVE TotalChars(_)
TotalChars(f) == IF f = <<>> THEN 0 ELSE Len(Head(f)) + 1 + TotalChars(Tail(f))

\* ------------------------------------------------------- str helpers
RECURSIVE rstrip(_)
rstrip(s) ==
    IF s # <<>> /\ s[Len(s)] \in Whitespace THEN rstrip(SubSeq(s, 1, Len(s) - 1)) ELSE s

RECURSIVE lstrip(_)
lstrip(s) ==
    IF s # <<>> /\ s[1] \in Whitespace THEN lstrip(Tail(s)) ELSE s

strip(s) == lstrip(rstrip(s))

Contains(s, c) == \E k \in 1..Len(s) : s[k] = c

startswith(s, p) == Len(s) >= Len(p) /\ SubSeq(s, 1, Len(p)) = p

\* ------------------------------------------------------------- Scanner
\* the locals of one _process_line call
ScanEntry(ln, in_c, in_s, esc) ==
    [line |-> rstrip(ln), i |-> 1, content_buffer |-> <<>>,
     in_comment |-> in_c, in_string |-> in_s, escape_next |-> esc]

ScanDone(s) == s.i > Len(s.line)

\* the body of the loop: while i < len(line)
ScanBody(s) ==
    LET char == s.line[s.i]
        more == s.i + 1 <= Len(s.line)
    IN  IF s.escape_next
        THEN [s EXCEPT !.content_buffer = Append(@, char), !.escape_next = FALSE,
                       !.i = @ + 1]
        ELSE IF s.in_string # ""
        THEN [s EXCEPT !.content_buffer = Append(@, char),
                       !.escape_next = (char = "\\"),
                       !.in_string = IF char # "\\" /\ char = s.in_string THEN "" ELSE @,
                       !.i = @ + 1]
        ELSE IF s.in_comment
        THEN IF char = "*" /\ more /\ s.line[s.i + 1] = "/"
             THEN [s EXCEPT !.in_comment = FALSE, !.i = @ + 2]
             ELSE [s EXCEPT !.i = @ + 1]
        ELSE IF char = "-" /\ more /\ s.line[s.i + 1] = "-"
        THEN [s EXCEPT !.i = Len(s.line) + 1]          \* break
        ELSE IF char = "/" /\ more /\ s.line[s.i + 1] = "*"
        THEN [s EXCEPT !.in_comment = TRUE, !.i = @ + 2]
        ELSE IF char \in Quotes
        THEN [s EXCEPT !.in_string = char, !.content_buffer = Append(@, char),
                       !.i = @ + 1]
        ELSE [s EXCEPT !.content_buffer = Append(@, char), !.i = @ + 1]

\* a Scanner that looks for the block-comment opener before it asks whether
\* it is inside a string
ScanStep_CommentInString(s) ==
    IF /\ ~s.escape_next /\ ~s.in_comment /\ s.in_string # ""
       /\ s.line[s.i] = "/" /\ s.i + 1 <= Len(s.line) /\ s.line[s.i + 1] = "*"
    THEN [s EXCEPT !.in_comment = TRUE, !.i = @ + 2]
    ELSE ScanBody(s)

\* a Scanner that looks for a quote before it asks whether it is inside a
\* block comment
ScanStep_QuoteInComment(s) ==
    IF ~s.escape_next /\ s.in_string = "" /\ s.in_comment /\ s.line[s.i] \in Quotes
    THEN [s EXCEPT !.in_string = s.line[s.i],
                   !.content_buffer = Append(@, s.line[s.i]), !.i = @ + 1]
    ELSE ScanBody(s)

\* a Scanner that keeps what it reads inside a block comment
ScanStep_KeepsComment(s) ==
    IF ~s.escape_next /\ s.in_string = "" /\ s.in_comment
    THEN [ScanBody(s) EXCEPT !.content_buffer = Append(@, s.line[s.i])]
    ELSE ScanBody(s)

\* one iteration of the loop: while i < len(line)
ScanStep(s) == ScanBody(s)

RECURSIVE ScanLoop(_)
ScanLoop(s) == IF ScanDone(s) THEN s ELSE ScanLoop(ScanStep(s))

\* the dict _process_line returns
ScanResult(s) ==
    [content |-> s.content_buffer, in_multiline_comment |-> s.in_comment,
     in_string |-> s.in_string, escape_next |-> s.escape_next]

process_line(ln, in_c, in_s, esc) == ScanResult(ScanLoop(ScanEntry(ln, in_c, in_s, esc)))

\* ------------------------------------------------------------ Assembler
\* line 200: a complete statement ends at this line
StatementComplete(content, in_s) == Contains(content, ";") /\ in_s = ""

\* lines 201 and 218: the buffer holds something to execute
Executable(statement) ==
    strip(statement) # <<>> /\ ~startswith(strip(statement), <<"-", "-">>)

\* a loop that counts the statement before it executes it
AfterExecute_CountsFailure(ok, skip_errors, n) ==
    [statements_executed |-> n + 1, raised |-> ~ok /\ ~skip_errors]

\* lines 202-213: what one _execute_sql call in the loop leaves behind;
\* ok is the answer of the engine, n the counter statements_executed
AfterExecute(ok, skip_errors, n) ==
    [statements_executed |-> IF ok THEN n + 1 ELSE n,
     raised |-> ~ok /\ ~skip_errors]

\* lines 218-220: the statement left at end of file is executed outside the try
AfterFinalExecute(ok, skip_errors, n) ==
    [statements_executed |-> IF ok THEN n + 1 ELSE n,
     raised |-> ~ok]

\* lines 89-93 and main.py line 63: the connection options a restore needs
RequiredDbArgs == {"db_host", "db_user", "db_name"}

\* ---------------------------------------------------------------- state
VARIABLES
    pc,                     \* where the run is
    scan,                   \* locals of the _process_line call in progress
    args,                   \* the parsed command line (self.args); db_args
                            \* holds the connection options it supplies
    file,                   \* the lines of the input read so far, in order
    current_statement,      \* _restore_to_db locals
    in_multiline_comment,
    in_string,
    escape_next,
    statements_executed,
    engine_log,             \* every statement handed to _execute_sql, in order
    db_present,             \* the target database exists on the engine
    temp_exists,            \* the decompressed copy is on disk
    raised,                 \* the exception run() caught, "" when none
    exit_code,              \* -1 while running, then the exit status
    matches,                \* _extract_and_execute_inserts: what findall returned
    next_match,             \* how many of them the loop has taken
    current_batch,
    insert_count,
    options,                \* the attributes of self.args the modes other than
                            \* the full restore read
    env,                    \* what the run finds outside the program
    engine_contacted,       \* a connection to the engine has been attempted
    db_created,             \* _create_database has created the database
    file_count,             \* _split_dump locals
    line_count,
    current_file,
    parts,                  \* the part files written, in part-number order
    stats,                  \* self.stats, as far as the Analyzer writes it
    tables_created,         \* _validate_dump locals
    tables_referenced,
    errors,
    columns,                \* _extract_table_data locals
    csv_file,
    extracted_rows,
    report_file,            \* the JSON document at the path of --report
    tables_to_restore,      \* _restore_from_report local
    parse,                  \* the locals of one parse_values call
    existing                \* the file that was, before the run, at the path
                            \* of a .gz input without its suffix

scannerVars == <<scan, in_multiline_comment, in_string, escape_next>>
runVars == <<args, file, current_statement, statements_executed,
             engine_log, db_present, temp_exists, raised, exit_code>>
batchVars == <<matches, next_match, current_batch, insert_count>>
envVars == <<options, env>>
engineVars == <<engine_contacted, db_created>>
splitVars == <<file_count, line_count, current_file, parts>>
analyzeVars == <<stats>>
validateVars == <<tables_created, tables_referenced, errors>>
extractVars == <<columns, csv_file, extracted_rows>>
modeVars == <<splitVars, analyzeVars, validateVars, extractVars>>
parseVars == <<parse>>
fileVars == <<report_file, tables_to_restore, existing>>
otherVars == <<envVars, parseVars, engineVars, modeVars, fileVars>>
vars == <<pc, scannerVars, runVars, batchVars, otherVars>>

NoBatch ==
    /\ matches = <<>>
    /\ next_match = 0
    /\ current_batch = <<>>
    /\ insert_count = 0

NoScan == ScanEntry(<<>>, FALSE, "", FALSE)

\* _initialize_stats, the counters the Analyzer writes
NoStats ==
    [line_count |-> 0, total |-> 0, create_table |-> 0, insert |-> 0,
     alter |-> 0, drop |-> 0, other |-> 0, tables |-> <<>>]

\* lines 524-525: csv_file = None
NoCsv == [opened |-> FALSE, closed |-> FALSE, header |-> <<>>, rows |-> <<>>]

\* the options of main.py at their defaults
DefaultOptions ==
    [from_report |-> FALSE, report |-> FALSE, tables |-> {},
     table |-> "", lines_per_file |-> DefaultLinesPerFile]

\* no file is there at the path of --report
NoReport == <<>>

\* parse_values, core/parse.py lines 4-7, before a call: values_str is the
\* argument, rest what the loop of line 9 has not read yet
NoParse ==
    [values_str |-> <<>>, rest |-> <<>>, values |-> <<>>, current |-> <<>>,
     in_quotes |-> FALSE, escape |-> FALSE, returned |-> FALSE]

\* the locals of the modes before a mode runs
NoModeLocals ==
    /\ parse = NoParse
    /\ file_count = 0
    /\ line_count = 0
    /\ current_file = 0
    /\ parts = <<>>
    /\ stats = NoStats
    /\ tables_created = {}
    /\ tables_referenced = {}
    /\ errors = {}
    /\ columns = <<>>
    /\ csv_file = NoCsv
    /\ extracted_rows = 0

\* no report has been written and no file stands at the path the
\* decompressed copy of a .gz input takes
NoFiles ==
    /\ report_file = NoReport
    /\ tables_to_restore = {}
    /\ existing = "absent"

\* the state of the mode variables before a mode runs
NoModeState == NoModeLocals /\ NoFiles

\* the state of the other modes before they run, with the defaults of main.py
\* and an input that is a regular file on a POSIX system
NoModes ==
    /\ options = DefaultOptions
    /\ env = [input |-> "file", linesep |-> "LF", content |-> <<>>]
    /\ engine_contacted = FALSE
    /\ db_created = FALSE
    /\ NoModeState

\* the state of the restore and batch variables in a run of another mode
NoRestore ==
    /\ scan = NoScan
    /\ file = <<>>
    /\ current_statement = <<>>
    /\ in_multiline_comment = FALSE
    /\ in_string = ""
    /\ escape_next = FALSE
    /\ statements_executed = 0
    /\ engine_log = <<>>
    /\ db_present = TRUE
    /\ temp_exists = FALSE
    /\ raised = ""
    /\ exit_code = -1
    /\ NoBatch
    /\ engine_contacted = FALSE
    /\ db_created = FALSE

\* the arguments of a run of a mode other than restore
ModeArgs(mode) ==
    [mode : {mode}, gz : BOOLEAN, skip_errors : {FALSE}, create_database : {FALSE},
     db_args : {{}}, batch_size : {DefaultBatchSize}]

\* ----------------------------------------- character-level Scanner spec
InitScan ==
    /\ pc = "line"
    /\ scan = NoScan
    /\ in_multiline_comment = FALSE
    /\ in_string = ""
    /\ escape_next = FALSE
    /\ args = [mode |-> "restore", gz |-> FALSE, skip_errors |-> FALSE,
               create_database |-> FALSE, db_args |-> RequiredDbArgs, batch_size |-> DefaultBatchSize]
    /\ file = <<>>
    /\ current_statement = <<>>
    /\ statements_executed = 0
    /\ engine_log = <<>>
    /\ db_present = TRUE
    /\ temp_exists = FALSE
    /\ raised = ""
    /\ exit_code = -1
    /\ NoBatch
    /\ NoModes

\* the caller hands the next line and the carried state to _process_line
CallProcessLine ==
    /\ pc = "line"
    /\ \E ln \in ScanLines :
          scan' = ScanEntry(ln, in_multiline_comment, in_string, escape_next)
    /\ pc' = "scan"
    /\ UNCHANGED <<in_multiline_comment, in_string, escape_next, runVars, batchVars, otherVars>>

ScanChar ==
    /\ pc = "scan"
    /\ ~ScanDone(scan)
    /\ scan' = ScanStep(scan)
    /\ UNCHANGED <<pc, in_multiline_comment, in_string, escape_next, runVars, batchVars, otherVars>>

\* _process_line returns; the caller stores the returned state (lines 195-197)
ReturnProcessLine ==
    /\ pc = "scan"
    /\ ScanDone(scan)
    /\ in_multiline_comment' = ScanResult(scan).in_multiline_comment
    /\ in_string' = ScanResult(scan).in_string
    /\ escape_next' = ScanResult(scan).escape_next
    /\ scan' = NoScan
    /\ pc' = "line"
    /\ UNCHANGED <<runVars, batchVars, otherVars>>

NextScan == CallProcessLine \/ ScanChar \/ ReturnProcessLine

SpecScan == InitScan /\ [][NextScan]_vars

\* ------------------------------------------------------------ the run
\* run() lines 71-78: the handler of every exception logs it and exits 1
Raise(e) ==
    /\ raised' = e
    /\ exit_code' = 1
    /\ pc' = "done"

\* _validate_args, lines 80-93: the input path is checked in every mode but
\* restore, where only the connection arguments are checked; then run()
\* lines 57-66 enters the mode, and _extract_data starts with its own check
ValidateArgs ==
    /\ pc = "validate"
    /\ IF args.mode # "restore" /\ env.input = "missing"
       THEN Raise("FileNotFoundError")
       ELSE IF args.mode # "restore" /\ env.input # "file"
       THEN Raise("ValueError")
       ELSE IF args.mode = "restore" /\ RequiredDbArgs \ args.db_args # {}
       THEN Raise("ValueError")
       ELSE /\ pc' = (IF args.mode = "extract" THEN "extract" ELSE "decompress")
            /\ UNCHANGED <<raised, exit_code>>
    /\ UNCHANGED <<scannerVars, args, file, current_statement,
                   statements_executed, engine_log, db_present, temp_exists>>
    /\ UNCHANGED <<batchVars, otherVars>>

\* where each mode goes after its call of _decompress_if_needed
AfterDecompress(mode) ==
    CASE mode = "restore"  -> "checkdb"
      [] mode = "split"    -> "split_loop"
      [] mode = "analyze"  -> "analyze_loop"
      [] mode = "validate" -> "validate_loop"
      [] mode = "extract"  -> "extract_loop"

\* the exception of open() on a path that is not a regular file
OpenError(input) == IF input = "missing" THEN "FileNotFoundError" ELSE "IsADirectoryError"

\* lines 627-629: open(decompressed_path, 'wb') and copyfileobj replace what
\* stood at the path of the copy
Decompressed(gz, was) == IF gz /\ was # "absent" THEN "overwritten" ELSE was

\* lines 636-638: os.remove of the path of the copy
Removed(gz, was) == IF gz /\ was # "absent" THEN "deleted" ELSE was

\* _generate_report, lines 664-674: the document json.dump writes when
\* --report is given
generate_report(report, previous, arguments, statistics) ==
    IF report
    THEN [timestamp |-> "now", arguments |-> arguments, statistics |-> statistics,
          execution_time_seconds |-> 0]
    ELSE previous

\* what the return of a mode does to the files: _cleanup_temp_file, then
\* run() lines 68-69
FilesAtReturn ==
    /\ existing' = Removed(args.gz, existing)
    /\ report_file' = generate_report(options.report, report_file, args, stats)
    /\ UNCHANGED tables_to_restore

\* _decompress_if_needed, lines 620-632, the first call of every mode (line
\* 171 in restore): gzip.open raises before the copy is created when the
\* input cannot be opened
DecompressIfNeeded ==
    /\ pc = "decompress"
    /\ IF args.gz /\ env.input # "file"
       THEN /\ Raise(OpenError(env.input))
            /\ UNCHANGED <<temp_exists, existing>>
       ELSE /\ temp_exists' = (IF args.gz THEN TRUE ELSE temp_exists)
            /\ existing' = Decompressed(args.gz, existing)
            /\ pc' = AfterDecompress(args.mode)
            /\ UNCHANGED <<raised, exit_code>>
    /\ UNCHANGED <<scannerVars, args, file, current_statement,
                   statements_executed, engine_log, db_present>>
    /\ UNCHANGED <<batchVars, envVars, parseVars, engineVars, modeVars, report_file, tables_to_restore>>

\* lines 176-188: the database check, then the locals of the loop;
\* _database_exists connects to the engine (line 238)
CheckDatabase ==
    /\ pc = "checkdb"
    /\ engine_contacted' = TRUE
    /\ IF db_present
       THEN /\ pc' = "loop"
            /\ UNCHANGED <<db_present, db_created, raised, exit_code>>
       ELSE IF args.create_database
       THEN \E created \in BOOLEAN :          \* _create_database, lines 251-273
               IF created
               THEN /\ db_present' = TRUE
                    /\ db_created' = TRUE
                    /\ pc' = "loop"
                    /\ UNCHANGED <<raised, exit_code>>
               ELSE /\ Raise("Error")
                    /\ UNCHANGED <<db_present, db_created>>
       ELSE /\ Raise("ValueError")
            /\ UNCHANGED <<db_present, db_created>>
    /\ current_statement' = <<>>
    /\ in_multiline_comment' = FALSE
    /\ in_string' = ""
    /\ escape_next' = FALSE
    /\ statements_executed' = 0
    /\ UNCHANGED <<scan, args, file, engine_log, temp_exists>>
    /\ UNCHANGED <<batchVars, envVars, parseVars, modeVars, fileVars>>

\* one iteration of the loop of lines 191-215, on the next line of the input
RestoreLine(line) ==
    /\ pc = "loop"
    /\ env.input = "file"
    /\ LET processed == process_line(line, in_multiline_comment, in_string, escape_next)
           statement == current_statement \o processed.content \o <<" ">>
       IN  /\ file' = Append(file, line)
           /\ in_multiline_comment' = processed.in_multiline_comment
           /\ in_string' = processed.in_string
           /\ escape_next' = processed.escape_next
           /\ IF ~StatementComplete(processed.content, processed.in_string)
              THEN /\ current_statement' = statement
                   /\ UNCHANGED <<pc, statements_executed, engine_log, raised, exit_code>>
              ELSE IF ~Executable(statement)
              THEN /\ current_statement' = <<>>
                   /\ UNCHANGED <<pc, statements_executed, engine_log, raised, exit_code>>
              ELSE \E ok \in BOOLEAN :       \* _execute_sql returns or raises
                      LET after == AfterExecute(ok, args.skip_errors, statements_executed)
                      IN  /\ engine_log' = Append(engine_log,
                                 [sql |-> strip(statement), ok |-> ok, at |-> Len(file) + 1])
                          /\ statements_executed' = after.statements_executed
                          /\ IF after.raised
                             THEN /\ Raise("Error")
                                  /\ current_statement' = statement
                             ELSE /\ current_statement' = <<>>
                                  /\ UNCHANGED <<pc, raised, exit_code>>
    /\ UNCHANGED <<scan, args, db_present, temp_exists>>
    /\ UNCHANGED <<batchVars, otherVars>>

\* the input has another line: Lines[n] are the lines of n characters and
\* maxChars bounds the input
ReadAndRestoreLine(Lines, maxChars) ==
    /\ TotalChars(file) < maxChars
    /\ \E n \in 0..(maxChars - TotalChars(file) - 1) :
          \E line \in Lines[n] : RestoreLine(line)

\* reading the next line fails (a decoding or an I/O error inside the loop)
ReadFailure ==
    /\ pc = "loop"
    /\ env.input = "file"
    /\ Raise("OSError")
    /\ UNCHANGED <<scannerVars, args, file, current_statement,
                   statements_executed, engine_log, db_present, temp_exists>>
    /\ UNCHANGED <<batchVars, otherVars>>

\* line 190: open() of an input that is not a regular file raises
OpenInputFailure ==
    /\ pc = "loop"
    /\ env.input # "file"
    /\ Raise(OpenError(env.input))
    /\ UNCHANGED <<scannerVars, args, file, current_statement,
                   statements_executed, engine_log, db_present, temp_exists>>
    /\ UNCHANGED <<batchVars, otherVars>>

\* _cleanup_temp_file, lines 634-639: the path differs from args.file only
\* for a .gz input
CleanupTempFile(gz, exists) == IF gz THEN FALSE ELSE exists

\* the input ends: lines 217-223 after the loop, then run() lines 68-69
RestoreEof ==
    /\ pc = "loop"
    /\ env.input = "file"
    /\ IF ~Executable(current_statement)
       THEN /\ temp_exists' = CleanupTempFile(args.gz, temp_exists)
            /\ FilesAtReturn
            /\ exit_code' = 0
            /\ pc' = "done"
            /\ UNCHANGED <<statements_executed, engine_log, raised>>
       ELSE \E ok \in BOOLEAN :
               LET after == AfterFinalExecute(ok, args.skip_errors, statements_executed)
               IN  /\ engine_log' = Append(engine_log,
                          [sql |-> strip(current_statement), ok |-> ok, at |-> Len(file) + 1])
                   /\ statements_executed' = after.statements_executed
                   /\ IF after.raised
                      THEN /\ Raise("Error")
                           /\ UNCHANGED <<temp_exists, fileVars>>
                      ELSE /\ temp_exists' = CleanupTempFile(args.gz, temp_exists)
                           /\ FilesAtReturn
                           /\ exit_code' = 0
                           /\ pc' = "done"
                           /\ UNCHANGED raised
    /\ UNCHANGED <<scannerVars, args, file, current_statement, db_present>>
    /\ UNCHANGED <<batchVars, envVars, parseVars, engineVars, modeVars>>

\* a restore run from the call of run()
Init ==
    /\ pc = "validate"
    /\ scan = NoScan
    /\ args \in [mode : {"restore"}, gz : BOOLEAN, skip_errors : BOOLEAN,
                  create_database : BOOLEAN, db_args : SUBSET RequiredDbArgs, batch_size : {DefaultBatchSize}]
    /\ file = <<>>
    /\ current_statement = <<>>
    /\ in_multiline_comment = FALSE
    /\ in_string = ""
    /\ escape_next = FALSE
    /\ statements_executed = 0
    /\ engine_log = <<>>
    /\ db_present \in BOOLEAN
    /\ temp_exists = FALSE
    /\ raised = ""
    /\ exit_code = -1
    /\ NoBatch
    /\ NoModes

Next ==
    \/ ValidateArgs
    \/ DecompressIfNeeded
    \/ CheckDatabase
    \/ ReadAndRestoreLine(RunLines, MaxRunChars)
    \/ ReadFailure
    \/ RestoreEof

Spec == Init /\ [][Next]_vars

\* the Assembler alone: _restore_to_db from line 190 on, over lexically rich
\* input
InitAsm ==
    /\ pc = "loop"
    /\ scan = NoScan
    /\ args \in [mode : {"restore"}, gz : {FALSE}, skip_errors : BOOLEAN,
                  create_database : {FALSE}, db_args : {RequiredDbArgs}, batch_size : {DefaultBatchSize}]
    /\ file = <<>>
    /\ current_statement = <<>>
    /\ in_multiline_comment = FALSE
    /\ in_string = ""
    /\ escape_next = FALSE
    /\ statements_executed = 0
    /\ engine_log = <<>>
    /\ db_present = TRUE
    /\ temp_exists = FALSE
    /\ raised = ""
    /\ exit_code = -1
    /\ NoBatch
    /\ NoModes

NextAsm == ReadAndRestoreLine(AsmLines, MaxAsmChars) \/ RestoreEof

SpecAsm == InitAsm /\ [][NextAsm]_vars

\* ----------------------------------------------------- Batched Executor
\* _execute_batch, lines 371-385: the statements are executed in order inside
\* one try; fail_at is the rank of the first statement the engine refuses
\* (Len(statements) + 1 when it refuses none)
execute_batch(statements, fail_at, skip_errors) ==
    [executed |-> [k \in 1..(IF fail_at <= Len(statements) THEN fail_at
                                                           ELSE Len(statements)) |->
                     [sql |-> statements[k], ok |-> k # fail_at, at |-> statements[k]]],
     raised |-> fail_at <= Len(statements) /\ ~skip_errors]

\* a loop that forgets line 359 and keeps the batch it has just executed
BatchAfterFlush_NotCleared(batch) == batch

\* line 359: current_batch = []
BatchAfterFlush(batch) == <<>>

\* one iteration of the loop of lines 353-362
BatchIteration ==
    /\ pc = "batch"
    /\ next_match < Len(matches)
    /\ next_match' = next_match + 1
    /\ LET batch == Append(current_batch, matches[next_match + 1])
       IN  IF Len(batch) >= args.batch_size
           THEN \E fail_at \in 1..(Len(batch) + 1) :
                   LET done == execute_batch(batch, fail_at, args.skip_errors)
                   IN  /\ engine_log' = engine_log \o done.executed
                       /\ IF done.raised
                          THEN /\ Raise("Error")
                               /\ current_batch' = batch
                               /\ UNCHANGED insert_count
                          ELSE /\ insert_count' = insert_count + Len(batch)
                               /\ current_batch' = BatchAfterFlush(batch)
                               /\ UNCHANGED <<pc, raised, exit_code>>
           ELSE /\ current_batch' = batch
                /\ UNCHANGED <<pc, engine_log, insert_count, raised, exit_code>>
    /\ UNCHANGED <<scannerVars, args, file, current_statement, statements_executed,
                   db_present, temp_exists, matches, otherVars>>

\* lines 364-369: the batch left when the matches run out, then the return
BatchRemainder ==
    /\ pc = "batch"
    /\ next_match = Len(matches)
    /\ IF current_batch # <<>>
       THEN \E fail_at \in 1..(Len(current_batch) + 1) :
               LET done == execute_batch(current_batch, fail_at, args.skip_errors)
               IN  /\ engine_log' = engine_log \o done.executed
                   /\ IF done.raised
                      THEN /\ Raise("Error")
                           /\ UNCHANGED insert_count
                      ELSE /\ insert_count' = insert_count + Len(current_batch)
                           /\ pc' = "returned"
                           /\ UNCHANGED <<raised, exit_code>>
       ELSE /\ pc' = "returned"
            /\ UNCHANGED <<engine_log, insert_count, raised, exit_code>>
    /\ UNCHANGED <<scannerVars, args, file, current_statement, statements_executed,
                   db_present, temp_exists, matches, next_match, current_batch, otherVars>>

\* _extract_and_execute_inserts from line 345 on; the INSERT statements of
\* the table that findall returned are named by their rank in the file
InitBatch ==
    /\ pc = "batch"
    /\ scan = NoScan
    /\ args \in [mode : {"restore"}, gz : {FALSE}, skip_errors : BOOLEAN,
                  create_database : {FALSE}, db_args : {RequiredDbArgs},
                  batch_size : 1..MaxBatchSize]
    /\ file = <<>>
    /\ current_statement = <<>>
    /\ in_multiline_comment = FALSE
    /\ in_string = ""
    /\ escape_next = FALSE
    /\ statements_executed = 0
    /\ engine_log = <<>>
    /\ db_present = TRUE
    /\ temp_exists = FALSE
    /\ raised = ""
    /\ exit_code = -1
    /\ \E n \in 0..MaxMatches : matches = [k \in 1..n |-> k]
    /\ next_match = 0
    /\ current_batch = <<>>
    /\ insert_count = 0
    /\ NoModes

NextBatch == BatchIteration \/ BatchRemainder

SpecBatch == InitBatch /\ [][NextBatch]_vars

\* ------------------------------------------------------------- Splitter
\* the raw text of the input of the Splitter: a letter and the two characters
\* line terminators are made of
SplitChars == {"a", "\r", "\n"}

\* iterating a file opened in text mode with the default newline=None (lines
\* 600-601): a line ends at \n, at \r\n or at a lone \r, and each of them
\* reaches the program as \n
RECURSIVE UniversalLines(_, _)
UniversalLines(s, cur) ==
    IF s = <<>> THEN (IF cur = <<>> THEN <<>> ELSE <<cur>>)
    ELSE IF Head(s) = "\n"
    THEN <<Append(cur, "\n")>> \o UniversalLines(Tail(s), <<>>)
    ELSE IF Head(s) = "\r"
    THEN <<Append(cur, "\n")>> \o
         UniversalLines(IF Tail(s) # <<>> /\ Head(Tail(s)) = "\n"
                        THEN Tail(Tail(s)) ELSE Tail(s), <<>>)
    ELSE UniversalLines(Tail(s), Append(cur, Head(s)))

\* the lines the loop of line 601 iterates over
InputLines == UniversalLines(env.content, <<>>)

\* write() on a file opened in text mode with the default newline (lines 607,
\* 611): every \n is written as the line separator of the platform
RECURSIVE WriteText(_, _)
WriteText(text, linesep) ==
    IF text = <<>> THEN <<>>
    ELSE (IF Head(text) = "\n"
          THEN (IF linesep = "CRLF" THEN <<"\r", "\n">> ELSE <<"\n">>)
          ELSE <<Head(text)>>) \o WriteText(Tail(text), linesep)

\* the % of Python on integers, whose result has the sign of the divisor
PyMod(a, n) == IF n > 0 THEN a % n ELSE 0 - ((0 - a) % (0 - n))

\* lines 602-609: at every lines_per_file-th line the current part is closed
\* and the next one is opened
Rotate(ps, cur, n) ==
    IF PyMod(n, options.lines_per_file) = 0
    THEN [parts |-> Append(IF cur # 0 THEN [ps EXCEPT ![cur].closed = TRUE] ELSE ps,
                           [text |-> <<>>, closed |-> FALSE]),
          current_file |-> Len(ps) + 1]
    ELSE [parts |-> ps, current_file |-> cur]

\* one iteration of the loop of lines 601-612 on the next line of the input
SplitLine ==
    /\ pc = "split_loop"
    /\ Len(file) < Len(InputLines)
    /\ IF options.lines_per_file = 0
       THEN /\ Raise("ZeroDivisionError")        \* line 602
            /\ file' = Append(file, InputLines[Len(file) + 1])
            /\ UNCHANGED <<file_count, current_file, parts, line_count>>
       ELSE LET line == InputLines[Len(file) + 1]
                r == Rotate(parts, current_file, line_count)
            IN  /\ file' = Append(file, line)
                /\ file_count' = Len(r.parts)
                /\ current_file' = r.current_file
                /\ parts' = [r.parts EXCEPT ![r.current_file].text =
                                               @ \o WriteText(line, env.linesep)]
                /\ line_count' = line_count + 1
                /\ UNCHANGED <<pc, raised, exit_code>>
    /\ UNCHANGED <<scannerVars, args, current_statement, statements_executed,
                   engine_log, db_present, temp_exists>>
    /\ UNCHANGED <<batchVars, fileVars, envVars, parseVars, engineVars, analyzeVars, validateVars, extractVars>>

\* reading the next line raises (a decoding or an I/O error at line 601)
SplitReadFailure ==
    /\ pc = "split_loop"
    /\ Raise("OSError")
    /\ UNCHANGED <<scannerVars, args, file, current_statement, statements_executed,
                   engine_log, db_present, temp_exists>>
    /\ UNCHANGED <<batchVars, otherVars>>

\* the write of line 611 raises (the disk is full), after the rotation of
\* lines 602-609
SplitWriteFailure ==
    /\ pc = "split_loop"
    /\ Len(file) < Len(InputLines)
    /\ options.lines_per_file # 0
    /\ LET r == Rotate(parts, current_file, line_count)
       IN  /\ file' = Append(file, InputLines[Len(file) + 1])
           /\ file_count' = Len(r.parts)
           /\ current_file' = r.current_file
           /\ parts' = r.parts
    /\ Raise("OSError")
    /\ UNCHANGED <<scannerVars, args, current_statement, statements_executed,
                   engine_log, db_present, temp_exists, line_count>>
    /\ UNCHANGED <<batchVars, fileVars, envVars, parseVars, engineVars, analyzeVars, validateVars, extractVars>>

\* the input ends: lines 614-618, then run() lines 68-69
SplitEof ==
    /\ pc = "split_loop"
    /\ Len(file) = Len(InputLines)
    /\ parts' = (IF current_file # 0 THEN [parts EXCEPT ![current_file].closed = TRUE]
                                      ELSE parts)
    /\ temp_exists' = CleanupTempFile(args.gz, temp_exists)
    /\ FilesAtReturn
    /\ exit_code' = 0
    /\ pc' = "done"
    /\ UNCHANGED <<scannerVars, args, file, current_statement, statements_executed,
                   engine_log, db_present, raised, file_count, line_count, current_file>>
    /\ UNCHANGED <<batchVars, envVars, parseVars, engineVars, analyzeVars, validateVars, extractVars>>

\* a split run from the call of run()
InitSplit ==
    /\ pc = "validate"
    /\ NoRestore
    /\ args \in ModeArgs("split")
    /\ \E n \in 1..MaxLinesPerFile :
          options = [DefaultOptions EXCEPT !.lines_per_file = n]
    /\ env \in [input : {"file"}, linesep : {"LF", "CRLF"},
                 content : SeqsUpTo(SplitChars, MaxSplitChars)]
    /\ NoModeState

NextSplit ==
    \/ ValidateArgs
    \/ DecompressIfNeeded
    \/ SplitLine
    \/ SplitReadFailure
    \/ SplitWriteFailure
    \/ SplitEof

SpecSplit == InitSplit /\ [][NextSplit]_vars

\* ----------------------------------------------- Analyzer and Validator
\* str.upper on a token
Upper(tok) ==
    CASE tok = "insert into " -> "INSERT INTO "
      [] tok = "t" -> "T"
      [] tok = "u" -> "U"
      [] OTHER -> tok

upper(line) == [k \in 1..Len(line) |-> Upper(line[k])]

\* what \w+ matches at the start of a token: a table name, or the first word
\* of a keyword phrase; "" where the token starts with no word character
FirstWord(tok) ==
    CASE tok \in TableNames -> tok
      [] tok = "CREATE TABLE " -> "CREATE"
      [] tok \in {"INSERT INTO ", "INSERT IGNORE INTO "} -> "INSERT"
      [] tok = "insert into " -> "insert"
      [] tok = "ALTER TABLE " -> "ALTER"
      [] tok = "DROP TABLE " -> "DROP"
      [] OTHER -> ""

\* re.search of one pattern of extract_table_name, re.IGNORECASE: the word
\* after the leftmost occurrence of the keyword that a word follows
RECURSIVE SearchPattern(_, _)
SearchPattern(keyword, line) ==
    IF Len(line) < 2 THEN ""
    ELSE IF Upper(line[1]) = keyword /\ FirstWord(line[2]) # ""
    THEN FirstWord(line[2])
    ELSE SearchPattern(keyword, Tail(line))

\* extract_table_name, core/extract.py lines 4-16: the patterns in their
\* order; "" is None
extract_table_name(line) ==
    IF SearchPattern("CREATE TABLE ", line) # "" THEN SearchPattern("CREATE TABLE ", line)
    ELSE IF SearchPattern("INSERT INTO ", line) # "" THEN SearchPattern("INSERT INTO ", line)
    ELSE SearchPattern("INSERT IGNORE INTO ", line)

\* lines 486 and 492: tables[name] = tables.get(name, 0) + 1
CountTable(tables, table_name) ==
    IF table_name = "" THEN tables
    ELSE [n \in DOMAIN tables \cup {table_name} |->
            (IF n \in DOMAIN tables THEN tables[n] ELSE 0) + (IF n = table_name THEN 1 ELSE 0)]

\* an Analyzer whose INSERT test is an if of its own, not an elif of the
\* CREATE TABLE test
process_line_for_analysis_IfNotElif(st, line) ==
    LET line_upper == upper(line)
    IN  IF line_upper = <<>> \/ Head(line_upper) = "--" THEN st
        ELSE LET counted == [st EXCEPT !.total = @ + 1]
                 created == IF Contains(line_upper, "CREATE TABLE ")
                            THEN [counted EXCEPT !.create_table = @ + 1,
                                      !.tables = CountTable(@, extract_table_name(line))]
                            ELSE counted
             IN  IF Contains(line_upper, "INSERT INTO ")
                 THEN [created EXCEPT !.insert = @ + 1,
                                      !.tables = CountTable(@, extract_table_name(line))]
                 ELSE IF Contains(line_upper, "CREATE TABLE ") THEN created
                 ELSE IF Contains(line_upper, "ALTER TABLE ")
                 THEN [created EXCEPT !.alter = @ + 1]
                 ELSE IF Contains(line_upper, "DROP TABLE ")
                 THEN [created EXCEPT !.drop = @ + 1]
                 ELSE [created EXCEPT !.other = @ + 1]

\* _process_line_for_analysis, lines 473-501
process_line_for_analysis(st, line) ==
    LET line_upper == upper(line)
    IN  IF line_upper = <<>> \/ Head(line_upper) = "--" THEN st
        ELSE LET counted == [st EXCEPT !.total = @ + 1]
             IN  IF Contains(line_upper, "CREATE TABLE ")
                 THEN [counted EXCEPT !.create_table = @ + 1,
                                      !.tables = CountTable(@, extract_table_name(line))]
                 ELSE IF Contains(line_upper, "INSERT INTO ")
                 THEN [counted EXCEPT !.insert = @ + 1,
                                      !.tables = CountTable(@, extract_table_name(line))]
                 ELSE IF Contains(line_upper, "ALTER TABLE ")
                 THEN [counted EXCEPT !.alter = @ + 1]
                 ELSE IF Contains(line_upper, "DROP TABLE ")
                 THEN [counted EXCEPT !.drop = @ + 1]
                 ELSE [counted EXCEPT !.other = @ + 1]

\* one iteration of the loop of lines 467-469
AnalyzeLine(line) ==
    /\ pc = "analyze_loop"
    /\ file' = Append(file, line)
    /\ stats' = process_line_for_analysis([stats EXCEPT !.line_count = @ + 1], line)
    /\ UNCHANGED <<pc, scannerVars, args, current_statement, statements_executed,
                   engine_log, db_present, temp_exists, raised, exit_code>>
    /\ UNCHANGED <<batchVars, fileVars, envVars, parseVars, engineVars, splitVars, validateVars, extractVars>>

\* the input has another line
ReadAndAnalyzeLine ==
    /\ TotalChars(file) < MaxSqlTokens
    /\ \E n \in 0..(MaxSqlTokens - TotalChars(file) - 1) :
          \E line \in SqlLines[n] : AnalyzeLine(line)

\* reading the next line raises (a decoding or an I/O error at line 467)
AnalyzeReadFailure ==
    /\ pc = "analyze_loop"
    /\ Raise("OSError")
    /\ UNCHANGED <<scannerVars, args, file, current_statement, statements_executed,
                   engine_log, db_present, temp_exists>>
    /\ UNCHANGED <<batchVars, otherVars>>

\* the input ends: line 471, then run() lines 68-69
AnalyzeEof ==
    /\ pc = "analyze_loop"
    /\ temp_exists' = CleanupTempFile(args.gz, temp_exists)
    /\ FilesAtReturn
    /\ exit_code' = 0
    /\ pc' = "done"
    /\ UNCHANGED <<scannerVars, args, file, current_statement, statements_executed,
                   engine_log, db_present, raised>>
    /\ UNCHANGED <<batchVars, envVars, parseVars, engineVars, modeVars>>

\* an analyze run from the call of run()
InitAnalyze ==
    /\ pc = "validate"
    /\ NoRestore
    /\ args \in ModeArgs("analyze")
    /\ options = DefaultOptions
    /\ env = [input |-> "file", linesep |-> "LF", content |-> <<>>]
    /\ NoModeState

NextAnalyze ==
    \/ ValidateArgs
    \/ DecompressIfNeeded
    \/ ReadAndAnalyzeLine
    \/ AnalyzeReadFailure
    \/ AnalyzeEof

SpecAnalyze == InitAnalyze /\ [][NextAnalyze]_vars

\* one iteration of the loop of lines 563-574
ValidateLine(line) ==
    /\ pc = "validate_loop"
    /\ file' = Append(file, line)
    /\ LET line_upper == upper(line)
           table_name == extract_table_name(line)
       IN  IF Contains(line_upper, "CREATE TABLE ")
           THEN /\ tables_created' = (IF table_name # "" THEN tables_created \cup {table_name}
                                                         ELSE tables_created)
                /\ UNCHANGED tables_referenced
           ELSE IF Contains(line_upper, "INSERT INTO ")
           THEN /\ tables_referenced' = (IF table_name # "" THEN tables_referenced \cup {table_name}
                                                            ELSE tables_referenced)
                /\ UNCHANGED tables_created
           ELSE UNCHANGED <<tables_created, tables_referenced>>
    /\ UNCHANGED <<pc, scannerVars, args, current_statement, statements_executed,
                   engine_log, db_present, temp_exists, raised, exit_code, errors>>
    /\ UNCHANGED <<batchVars, fileVars, envVars, parseVars, engineVars, splitVars, analyzeVars, extractVars>>

\* the input has another line
ReadAndValidateLine ==
    /\ TotalChars(file) < MaxSqlTokens
    /\ \E n \in 0..(MaxSqlTokens - TotalChars(file) - 1) :
          \E line \in SqlLines[n] : ValidateLine(line)

\* reading the next line raises (a decoding or an I/O error at line 563)
ValidateReadFailure ==
    /\ pc = "validate_loop"
    /\ Raise("OSError")
    /\ UNCHANGED <<scannerVars, args, file, current_statement, statements_executed,
                   engine_log, db_present, temp_exists>>
    /\ UNCHANGED <<batchVars, otherVars>>

\* the input ends: lines 576-584, then run() lines 68-69; errors holds the
\* tables the messages name
ValidateEof ==
    /\ pc = "validate_loop"
    /\ errors' = tables_referenced \ tables_created
    /\ temp_exists' = CleanupTempFile(args.gz, temp_exists)
    /\ FilesAtReturn
    /\ exit_code' = 0
    /\ pc' = "done"
    /\ UNCHANGED <<scannerVars, args, file, current_statement, statements_executed,
                   engine_log, db_present, raised, tables_created, tables_referenced>>
    /\ UNCHANGED <<batchVars, envVars, parseVars, engineVars, splitVars, analyzeVars, extractVars>>

\* a validate run from the call of run()
InitValidate ==
    /\ pc = "validate"
    /\ NoRestore
    /\ args \in ModeArgs("validate")
    /\ options = DefaultOptions
    /\ env = [input |-> "file", linesep |-> "LF", content |-> <<>>]
    /\ NoModeState

NextValidate ==
    \/ ValidateArgs
    \/ DecompressIfNeeded
    \/ ReadAndValidateLine
    \/ ValidateReadFailure
    \/ ValidateEof

SpecValidate == InitValidate /\ [][NextValidate]_vars

\* ------------------------------------------------------------ Extractor
\* parse_values, core/parse.py: one step of the loop over the characters
ParseChar(st, char) ==
    IF st.escape
    THEN [st EXCEPT !.current = Append(@, char), !.escape = FALSE]
    ELSE IF char = "\\"
    THEN [st EXCEPT !.escape = TRUE]
    ELSE IF char \in {"'", "\""}
    THEN [st EXCEPT !.in_quotes = ~@]
    ELSE IF char = "," /\ ~st.in_quotes
    THEN [st EXCEPT !.values = Append(@, strip(st.current)), !.current = <<>>]
    ELSE [st EXCEPT !.current = Append(@, char)]

RECURSIVE ParseLoop(_, _)
ParseLoop(st, str) ==
    IF str = <<>> THEN st ELSE ParseLoop(ParseChar(st, Head(str)), Tail(str))

\* parse_values, core/parse.py lines 1-33
parse_values(values_str) ==
    LET st == ParseLoop([values |-> <<>>, current |-> <<>>,
                         in_quotes |-> FALSE, escape |-> FALSE], values_str)
    IN  IF st.current # <<>> THEN Append(st.values, strip(st.current)) ELSE st.values

\* the second group of insert_pattern, lines 519-522: the text after VALUES,
\* lazily, up to the first ");" or else to the end of the line
RECURSIVE ValuesGroup(_)
ValuesGroup(text) ==
    IF text = <<>> THEN <<>>
    ELSE IF Len(text) >= 2 /\ text[1] = ")" /\ text[2] = ";" THEN <<>>
    ELSE <<Head(text)>> \o ValuesGroup(Tail(text))

\* lines 531-532: what findall returns on a line, a line being the keyword,
\* the table, the column list and the text after VALUES
InsertMatches(line, table_name) ==
    IF line.keyword = "INSERT INTO" /\ line.table = table_name
    THEN <<[cols |-> line.cols, values |-> ValuesGroup(line.values)]>>
    ELSE <<>>

\* lines 533-545 for one match: the first match fixes the columns and opens
\* the output; a row is written when the arity fits
ExtractMatch(st, m) ==
    LET cols == IF st.columns = <<>> THEN m.cols ELSE st.columns
        csv == IF st.columns = <<>>
               THEN [opened |-> TRUE, closed |-> FALSE, header |-> cols, rows |-> <<>>]
               ELSE st.csv_file
        values_list == parse_values(m.values)
    IN  IF csv.opened /\ Len(values_list) = Len(cols)
        THEN [columns |-> cols,
              csv_file |-> [csv EXCEPT !.rows = Append(@, values_list)],
              extracted_rows |-> st.extracted_rows + 1]
        ELSE [columns |-> cols, csv_file |-> csv, extracted_rows |-> st.extracted_rows]

RECURSIVE ExtractMatches(_, _)
ExtractMatches(st, ms) ==
    IF ms = <<>> THEN st ELSE ExtractMatches(ExtractMatch(st, Head(ms)), Tail(ms))

\* the text of a value tuple list as a dump spells it: the tuples in
\* parentheses, separated by a comma and a space
RECURSIVE JoinWith(_, _)
JoinWith(items, sep) ==
    IF items = <<>> THEN <<>>
    ELSE IF Len(items) = 1 THEN Head(items)
    ELSE Head(items) \o sep \o JoinWith(Tail(items), sep)

RenderTuple(tuple) == <<"(">> \o JoinWith(tuple, <<",">>) \o <<")">>

RenderValues(tuples, semicolon) ==
    JoinWith([k \in 1..Len(tuples) |-> RenderTuple(tuples[k])], <<",", " ">>)
        \o (IF semicolon THEN <<";">> ELSE <<>>)

\* the SQL literals of the input: a number and a quoted text with a comma
ExtractLiterals == {<<"1">>, <<"'", "x", ",", "y", "'">>}

ColumnNames == <<"a", "b", "c", "d">>

\* the INSERT statements of the input, one on a line
ExtractStatements ==
    UNION {[table : {"t", "u"}, ncols : {c},
            tuples : UNION {[1..n -> [1..c -> ExtractLiterals]] : n \in 1..MaxTuples},
            semicolon : BOOLEAN] : c \in 1..MaxColumns}

\* the line of a statement as the code sees it (keyword, table, column list,
\* text after VALUES); tuples keeps what the statement says and no
\* definition of the Extractor reads it
LineOf(stmt) ==
    [keyword |-> "INSERT INTO", table |-> stmt.table,
     cols |-> SubSeq(ColumnNames, 1, stmt.ncols),
     values |-> RenderValues(stmt.tuples, stmt.semicolon),
     tuples |-> stmt.tuples]

\* _extract_data, lines 505-506: the check of --table
ExtractData ==
    /\ pc = "extract"
    /\ IF options.table = ""
       THEN Raise("ValueError")
       ELSE /\ pc' = "decompress"
            /\ UNCHANGED <<raised, exit_code>>
    /\ UNCHANGED <<scannerVars, args, file, current_statement, statements_executed,
                   engine_log, db_present, temp_exists>>
    /\ UNCHANGED <<batchVars, otherVars>>

\* one iteration of the loop of lines 530-545
ExtractLine(line) ==
    /\ pc = "extract_loop"
    /\ file' = Append(file, line)
    /\ LET st == ExtractMatches([columns |-> columns, csv_file |-> csv_file,
                                 extracted_rows |-> extracted_rows],
                                InsertMatches(line, options.table))
       IN  /\ columns' = st.columns
           /\ csv_file' = st.csv_file
           /\ extracted_rows' = st.extracted_rows
    /\ UNCHANGED <<pc, scannerVars, args, current_statement, statements_executed,
                   engine_log, db_present, temp_exists, raised, exit_code>>
    /\ UNCHANGED <<batchVars, fileVars, envVars, parseVars, engineVars, splitVars, analyzeVars, validateVars>>

\* the input has another line
ReadAndExtractLine ==
    /\ Len(file) < MaxExtractLines
    /\ \E stmt \in ExtractStatements : ExtractLine(LineOf(stmt))

\* reading the next line raises (a decoding or an I/O error at line 530)
ExtractReadFailure ==
    /\ pc = "extract_loop"
    /\ Raise("OSError")
    /\ UNCHANGED <<scannerVars, args, file, current_statement, statements_executed,
                   engine_log, db_present, temp_exists>>
    /\ UNCHANGED <<batchVars, otherVars>>

\* the input ends: lines 547-550, line 515, then run() lines 68-69
ExtractEof ==
    /\ pc = "extract_loop"
    /\ csv_file' = (IF csv_file.opened THEN [csv_file EXCEPT !.closed = TRUE] ELSE csv_file)
    /\ temp_exists' = CleanupTempFile(args.gz, temp_exists)
    /\ FilesAtReturn
    /\ exit_code' = 0
    /\ pc' = "done"
    /\ UNCHANGED <<scannerVars, args, file, current_statement, statements_executed,
                   engine_log, db_present, raised, columns, extracted_rows>>
    /\ UNCHANGED <<batchVars, envVars, parseVars, engineVars, splitVars, analyzeVars, validateVars>>

\* an extract run from the call of run()
InitExtract ==
    /\ pc = "validate"
    /\ NoRestore
    /\ args \in ModeArgs("extract")
    /\ \E t \in {"", "t"} : options = [DefaultOptions EXCEPT !.table = t]
    /\ env = [input |-> "file", linesep |-> "LF", content |-> <<>>]
    /\ NoModeState

NextExtract ==
    \/ ValidateArgs
    \/ ExtractData
    \/ DecompressIfNeeded
    \/ ReadAndExtractLine
    \/ ExtractReadFailure
    \/ ExtractEof

SpecExtract == InitExtract /\ [][NextExtract]_vars

\* the two modes that open output files
InitOutputs == InitSplit \/ InitExtract

NextOutputs == NextSplit \/ NextExtract

SpecOutputs == InitOutputs /\ [][NextOutputs]_vars

\* ---------------------------------------------------- the command line
\* main.py lines 60-72: the checks of main() on a restore invocation;
\* parser.error exits with status 2 before the processor exists
Main ==
    /\ pc = "main"
    /\ IF args.mode = "restore" /\ ~options.from_report /\ RequiredDbArgs \ args.db_args # {}
       THEN /\ exit_code' = 2
            /\ pc' = "done"
       ELSE IF args.mode = "restore" /\ options.from_report /\ ~options.report
       THEN /\ exit_code' = 2
            /\ pc' = "done"
       ELSE /\ pc' = "validate"
            /\ UNCHANGED exit_code
    /\ UNCHANGED <<scannerVars, args, file, current_statement, statements_executed,
                   engine_log, db_present, temp_exists, raised>>
    /\ UNCHANGED <<batchVars, otherVars>>

\* an invocation of main.py in any mode, on an input path that is a regular
\* file, is missing or is a directory
InitMain ==
    /\ pc = "main"
    /\ scan = NoScan
    /\ file = <<>>
    /\ current_statement = <<>>
    /\ in_multiline_comment = FALSE
    /\ in_string = ""
    /\ escape_next = FALSE
    /\ statements_executed = 0
    /\ engine_log = <<>>
    /\ db_present \in BOOLEAN
    /\ temp_exists = FALSE
    /\ raised = ""
    /\ exit_code = -1
    /\ NoBatch
    /\ engine_contacted = FALSE
    /\ db_created = FALSE
    /\ NoModeState
    /\ env \in [input : {"file", "missing", "directory"}, linesep : {"LF"}, content : {<<>>}]
    /\ \/ /\ args \in [mode : {"restore"}, gz : BOOLEAN, skip_errors : {FALSE},
                         create_database : BOOLEAN, db_args : SUBSET RequiredDbArgs,
                         batch_size : {DefaultBatchSize}]
          /\ \E fr \in BOOLEAN, rp \in BOOLEAN :
                options = [DefaultOptions EXCEPT !.from_report = fr, !.report = rp]
       \/ /\ args \in UNION {ModeArgs(mode) : mode \in {"analyze", "validate", "split", "extract"}}
          /\ \E t \in {"", "t"} : options = [DefaultOptions EXCEPT !.table = t]

\* from the command line to the first read of the input by the mode
NextMain ==
    \/ Main
    \/ ValidateArgs
    \/ ExtractData
    \/ DecompressIfNeeded
    \/ CheckDatabase
    \/ OpenInputFailure

SpecMain == InitMain /\ [][NextMain]_vars

\* ------------------------------------------- restore from a report
\* the dump of a restore from a report: one statement on a line, a CREATE
\* TABLE or an INSERT INTO of one of three tables, the name of one of them
\* starting with the name of another; the Scanner reads a keyword phrase or
\* a name as it reads a letter
ScopedTables == {"t", "tt", "u"}
ScopedLines[n \in 0..(MaxScopedChars - 1)] ==
    IF n = 3
    THEN {<<kw, name, ";">> : kw \in {"CREATE TABLE ", "INSERT INTO "}, name \in ScopedTables}
    ELSE {}

\* main.py with restore, --from-report, --report and --tables
InitScoped ==
    /\ pc = "main"
    /\ scan = NoScan
    /\ args \in [mode : {"restore"}, gz : {FALSE}, skip_errors : BOOLEAN,
                  create_database : {FALSE}, db_args : {RequiredDbArgs},
                  batch_size : {DefaultBatchSize}]
    /\ file = <<>>
    /\ current_statement = <<>>
    /\ in_multiline_comment = FALSE
    /\ in_string = ""
    /\ escape_next = FALSE
    /\ statements_executed = 0
    /\ engine_log = <<>>
    /\ db_present = TRUE
    /\ temp_exists = FALSE
    /\ raised = ""
    /\ exit_code = -1
    /\ NoBatch
    /\ \E S \in {{"t"}, {"t", "u"}} :
          options = [DefaultOptions EXCEPT !.from_report = TRUE, !.report = TRUE, !.tables = S]
    /\ env = [input |-> "file", linesep |-> "LF", content |-> <<>>]
    /\ engine_contacted = FALSE
    /\ db_created = FALSE
    /\ NoModeState

\* run() lines 57-66 enters _restore_to_db in restore mode whatever
\* from_report is: no line of the program calls _restore_from_report
NextScoped ==
    \/ Main
    \/ ValidateArgs
    \/ DecompressIfNeeded
    \/ CheckDatabase
    \/ ReadAndRestoreLine(ScopedLines, MaxScopedChars)
    \/ ReadFailure
    \/ RestoreEof

SpecScoped == InitScoped /\ [][NextScoped]_vars

\* every way the program submits statements to the engine: the full restore
\* of run() and the batched INSERT execution of one table
InitRestore == Init \/ InitBatch

NextRestore ==
    \/ ValidateArgs
    \/ DecompressIfNeeded
    \/ CheckDatabase
    \/ ReadAndRestoreLine(RunLines, MaxRunChars)
    \/ ReadFailure
    \/ RestoreEof
    \/ BatchIteration
    \/ BatchRemainder

SpecRestore == InitRestore /\ [][NextRestore]_vars

\* ------------------------------------------------------ Scanner claims
\* C2: while the Scanner is inside a block comment, a quote character does
\* not open a string region: after the character the Scanner is still inside
\* the comment, not inside a string, and the cleaned output is unchanged.
C2_QuoteInCommentOpensNoString ==
    [][(/\ pc = "scan" /\ ~ScanDone(scan)
        /\ scan.in_comment
        /\ scan.line[scan.i] \in Quotes)
       => (/\ scan'.in_comment
           /\ scan'.in_string = ""
           /\ scan'.content_buffer = scan.content_buffer
           /\ scan'.i = scan.i + 1)]_vars

\* a quote has just been consumed inside a block comment
C2_Witness ==
    /\ pc = "scan"
    /\ scan.in_comment
    /\ scan.i > 1
    /\ scan.line[scan.i - 1] \in Quotes

\* C3: in every ScanState reachable from the initial state by any sequence
\* of lines, in the middle of a line or between two lines, insideString and
\* insideBlockComment are never both set.
C3_StringAndCommentExclusive ==
    /\ ~(scan.in_string # "" /\ scan.in_comment)
    /\ ~(in_string # "" /\ in_multiline_comment)

\* the Scanner is inside a string that holds a block-comment opener
C3_Witness ==
    /\ pc = "scan"
    /\ scan.in_string # ""
    /\ \E k \in 1..(scan.i - 2) : scan.line[k] = "/" /\ scan.line[k + 1] = "*"


\* ---------------------------------------------------- Assembler claims
\* the lexical region of every character of the line a call scans, in the
\* words of the Scanner contract: "string" (inside a quoted region, its
\* closing delimiter included), "comment" (a block comment and its two
\* markers), "linecomment" (from the line-comment marker on), "default"
RegionOf(s) ==
    IF s.escape_next \/ s.in_string # "" THEN "string"
    ELSE IF s.in_comment THEN "comment"
    ELSE IF s.line[s.i] = "-" /\ s.i + 1 <= Len(s.line) /\ s.line[s.i + 1] = "-"
    THEN "linecomment"
    ELSE IF s.line[s.i] = "/" /\ s.i + 1 <= Len(s.line) /\ s.line[s.i + 1] = "*"
    THEN "comment"
    ELSE "default"

RECURSIVE Regions(_)
Regions(s) ==
    IF ScanDone(s) THEN <<>>
    ELSE [k \in 1..(ScanStep(s).i - s.i) |-> RegionOf(s)] \o Regions(ScanStep(s))

\* the positions of the ";" of the line that lie in region r
SemisIn(s, r) == {k \in 1..Len(s.line) : s.line[k] = ";" /\ Regions(s)[k] = r}

RECURSIVE SemiCount(_)
SemiCount(t) ==
    IF t = <<>> THEN 0 ELSE (IF Head(t) = ";" THEN 1 ELSE 0) + SemiCount(Tail(t))

\* what the lines f leave in the Assembler when no failure stops it: the
\* buffer, the Scanner state, and the Statements emitted inside the loop
RECURSIVE Assembled(_)
Assembled(f) ==
    IF f = <<>>
    THEN [current_statement |-> <<>>, in_multiline_comment |-> FALSE, in_string |-> "",
          escape_next |-> FALSE, emitted |-> <<>>]
    ELSE LET b == Assembled(SubSeq(f, 1, Len(f) - 1))
             p == process_line(f[Len(f)], b.in_multiline_comment, b.in_string,
                               b.escape_next)
             statement == b.current_statement \o p.content \o <<" ">>
             complete == StatementComplete(p.content, p.in_string)
         IN  [current_statement |-> IF complete THEN <<>> ELSE statement,
              in_multiline_comment |-> p.in_multiline_comment,
              in_string |-> p.in_string,
              escape_next |-> p.escape_next,
              emitted |-> IF complete /\ Executable(statement)
                          THEN Append(b.emitted, strip(statement)) ELSE b.emitted]

\* the _process_line call on the last line read, as it was entered
LastCall ==
    LET b == Assembled(SubSeq(file, 1, Len(file) - 1))
    IN  ScanEntry(file[Len(file)], b.in_multiline_comment, b.in_string, b.escape_next)

\* this step is one iteration of the loop, on the line file'[Len(file')]
ReadsLine == pc = "loop" /\ Len(file') = Len(file) + 1
ThisCall == ScanEntry(file'[Len(file')], in_multiline_comment, in_string, escape_next)
\* the iteration took the branch of line 200: a Statement ends at this line
Emits == current_statement' = <<>> \/ engine_log' # engine_log

\* C1: a ";" inside a quoted string never ends a statement.  When the only
\* ";" of a line lie inside quoted strings, the Assembler emits nothing at
\* that line, so the statement that holds them is emitted once, whole, at
\* its own terminator.
C1_StringSemicolonEndsNoStatement ==
    [][(/\ ReadsLine
        /\ SemisIn(ThisCall, "string") # {}
        /\ SemisIn(ThisCall, "default") = {})
       => ~Emits]_vars

\* C4: a ";" that occurs only inside a block comment or after a line-comment
\* marker never ends a statement: the Assembler emits nothing at that line
\* and no ";" reaches the cleaned output.
C4_CommentSemicolonEndsNoStatement ==
    [][(/\ ReadsLine
        /\ SemisIn(ThisCall, "comment") \cup SemisIn(ThisCall, "linecomment") # {}
        /\ SemisIn(ThisCall, "default") \cup SemisIn(ThisCall, "string") = {})
       => (/\ ~Emits
           /\ SemiCount(current_statement') = SemiCount(current_statement))]_vars

\* a line whose only ";" lie in comments has been read and the buffer goes on
C4_Witness ==
    /\ pc = "loop"
    /\ file # <<>>
    /\ SemisIn(LastCall, "comment") # {}
    /\ SemisIn(LastCall, "default") \cup SemisIn(LastCall, "string") = {}
    /\ strip(current_statement) # <<>>

\* C5: when the cleaned output of a line holds an unquoted ";" followed by
\* further non-blank text, the Statement emitted ends at that ";" and the
\* text after it starts the buffer of the next Statement.
C5_TextAfterTerminatorStartsNextBuffer ==
    [][(/\ ReadsLine
        /\ pc' = "loop"
        /\ in_string' = ""
        /\ SemisIn(ThisCall, "default") # {})
       => LET content == ScanLoop(ThisCall).content_buffer
              last == CHOOSE k \in 1..Len(content) :
                         /\ content[k] = ";"
                         /\ \A j \in (k + 1)..Len(content) : content[j] # ";"
              rest == SubSeq(content, last + 1, Len(content))
          IN  strip(rest) # <<>>
              => (/\ engine_log' # engine_log
                  /\ engine_log'[Len(engine_log')].sql[Len(engine_log'[Len(engine_log')].sql)] = ";"
                  /\ strip(current_statement') = strip(rest))]_vars

\* ------------------------------------------------------- restore claims
\* the ranks in engine_log of the statements the engine refused
Failed == {k \in 1..Len(engine_log) : ~engine_log[k].ok}
\* the statements executed inside the loop, and the one executed after it
InLoop(e) == e.at <= Len(file)
SqlOf(log) == [k \in 1..Len(log) |-> log[k].sql]

\* C6: in a full restore of a dump of n terminated statements of which the
\* engine refuses statement k only: without skip-errors the run ends with a
\* non-zero exit, statement k is the last one attempted and k - 1 are counted
\* as executed; with skip-errors the run ends normally, all n statements have
\* been attempted and n - 1 are counted.
C6_AbortOrSkipOnFailure ==
    (/\ pc = "done"
     /\ raised \in {"", "Error"}
     /\ Cardinality(Failed) = 1
     /\ \A k \in 1..Len(engine_log) : InLoop(engine_log[k]))
    => LET k == CHOOSE j \in Failed : TRUE
       IN  IF args.skip_errors
           THEN /\ exit_code = 0
                /\ SqlOf(engine_log) = Assembled(file).emitted
                /\ statements_executed = Len(engine_log) - 1
           ELSE /\ exit_code = 1
                /\ k = Len(engine_log)
                /\ statements_executed = k - 1

\* three terminated statements, the second refused, skip-errors on: all
\* three attempted, two counted
C6_Witness ==
    /\ pc = "done"
    /\ args.skip_errors
    /\ exit_code = 0
    /\ Len(engine_log) = 3
    /\ Failed = {2}
    /\ \A k \in 1..3 : InLoop(engine_log[k])
    /\ statements_executed = 2

\* C7: in the Batched Executor a refused statement is the only one skipped
\* when skip-errors is on (every statement findall returned is submitted);
\* when it is off the refusal ends the run and nothing is submitted after it.
C7_BatchSkipsOnlyTheFailingStatement ==
    pc \in {"returned", "done"}
    => /\ args.skip_errors
          => \A m \in 1..Len(matches) :
                \E k \in 1..Len(engine_log) : engine_log[k].sql = matches[m]
       /\ (~args.skip_errors /\ Failed # {})
          => (raised = "Error" /\ Failed = {Len(engine_log)})

\* C8: with skip-errors on no refused statement ends the run, the final
\* statement executed at end of file included; with skip-errors off every
\* refused statement ends it.
C8_SkipErrorsCoversEveryStatement ==
    pc = "done"
    => /\ args.skip_errors => ~(raised = "Error" /\ Failed # {})
       /\ (~args.skip_errors /\ Failed # {}) => (raised = "Error" /\ exit_code = 1)

C10_TempFileGoneAtExit ==
    (pc = "done" /\ args.gz) => ~temp_exists

\* ----------------------------------------------------- Splitter claims
RECURSIVE ConcatParts(_)
ConcatParts(ps) == IF ps = <<>> THEN <<>> ELSE Head(ps).text \o ConcatParts(Tail(ps))

\* C12: when a split run with lines_per_file >= 1 has finished, the parts
\* concatenated in part-number order are the input, character for character,
\* every line with the terminator it had
C12_ConcatenatedPartsReproduceInput ==
    (args.mode = "split" /\ pc = "done" /\ exit_code = 0)
        => ConcatParts(parts) = env.content

\* C11: on every exit path of a mode, the exception paths included, every
\* output file the mode opened (a part file of the Splitter, the tabular
\* output of the Extractor) has been closed
C11_OutputHandlesClosedAtExit ==
    pc = "done" =>
        /\ \A k \in 1..Len(parts) : parts[k].closed
        /\ csv_file.opened => csv_file.closed

\* ---------------------------------------------------- Extractor claims
\* the text a SQL literal stands for: a quoted literal without its quotes
Unquote(lit) ==
    IF Len(lit) >= 2 /\ Head(lit) = "'" THEN SubSeq(lit, 2, Len(lit) - 1) ELSE lit

\* the rows the statements of the lines f hold for the table: the tuples of
\* every statement of the table whose arity is the column count of the first
RECURSIVE RowsOf(_, _, _)
RowsOf(f, table_name, ncols) ==
    IF f = <<>> THEN <<>>
    ELSE LET line == Head(f)
             c == IF ncols = 0 /\ line.table = table_name THEN Len(line.cols) ELSE ncols
         IN  (IF line.table = table_name /\ Len(line.cols) = c
              THEN [k \in 1..Len(line.tuples) |->
                      [j \in 1..c |-> Unquote(line.tuples[k][j])]]
              ELSE <<>>) \o RowsOf(Tail(f), table_name, c)

\* C15: the Extractor has written one row for every value tuple of the INSERT
\* statements of the target table read so far, and a comma inside a quoted
\* value has split no value
C15_OneRowPerTuple ==
    (args.mode = "extract" /\ pc \in {"extract_loop", "done"})
        => csv_file.rows = RowsOf(file, options.table, 0)

\* ---------------------------------------- Analyzer and Validator claims
\* what the dump says, read as SQL: the tokens of the lines with a line end
\* after each line
RECURSIVE TokenStream(_)
TokenStream(f) ==
    IF f = <<>> THEN <<>> ELSE Head(f) \o <<"EOL">> \o TokenStream(Tail(f))

\* one token of the dump: a quote opens or closes a string literal, the
\* dashes open a comment that the line end closes, the terminator ends a
\* statement; a keyword phrase that is the first token of a statement makes
\* it a CREATE TABLE or an INSERT statement, and the table name after the
\* phrase is its target
ReadToken(r, tok) ==
    IF r.in_comment THEN [r EXCEPT !.in_comment = (tok # "EOL")]
    ELSE IF r.in_string THEN [r EXCEPT !.in_string = (tok # "'")]
    ELSE IF tok = "EOL" THEN r
    ELSE IF tok = "--" THEN [r EXCEPT !.in_comment = TRUE]
    ELSE IF tok = "'" THEN [r EXCEPT !.in_string = TRUE, !.at_start = FALSE, !.expect = ""]
    ELSE IF tok = ";" THEN [r EXCEPT !.at_start = TRUE, !.expect = ""]
    ELSE IF tok \in Keywords
    THEN IF ~r.at_start THEN [r EXCEPT !.expect = ""]
         ELSE IF Upper(tok) = "CREATE TABLE "
         THEN [r EXCEPT !.at_start = FALSE, !.expect = "create", !.creates = @ + 1]
         ELSE [r EXCEPT !.at_start = FALSE, !.expect = "insert", !.inserts = @ + 1]
    ELSE IF r.expect = "create"
    THEN [r EXCEPT !.at_start = FALSE, !.expect = "", !.created = @ \cup {tok}]
    ELSE IF r.expect = "insert"
    THEN [r EXCEPT !.at_start = FALSE, !.expect = "", !.inserted = @ \cup {tok}]
    ELSE [r EXCEPT !.at_start = FALSE]

RECURSIVE ReadTokens(_, _)
ReadTokens(r, toks) ==
    IF toks = <<>> THEN r ELSE ReadTokens(ReadToken(r, Head(toks)), Tail(toks))

\* the statements of the lines f: how many CREATE TABLE and INSERT statements
\* there are and which tables they name
Statements(f) ==
    ReadTokens([in_comment |-> FALSE, in_string |-> FALSE, at_start |-> TRUE, expect |-> "",
                creates |-> 0, inserts |-> 0, created |-> {}, inserted |-> {}],
               TokenStream(f))

\* C13: after the pass of the Analyzer over a dump with N CREATE TABLE and M
\* INSERT statements over K distinct table names, the create_table counter is
\* N, the insert counter is M and the table statistics have K keys
C13_CountersMatchStatements ==
    (args.mode = "analyze" /\ pc = "done" /\ exit_code = 0) =>
        LET d == Statements(file)
        IN  /\ stats.create_table = d.creates
            /\ stats.insert = d.inserts
            /\ Cardinality(DOMAIN stats.tables) = Cardinality(d.created \cup d.inserted)

\* C14: after a full pass of the Validator the issues name exactly the tables
\* that some INSERT statement targets and no CREATE TABLE statement of the
\* file declares
C14_IssuesAreUndeclaredTargets ==
    (args.mode = "validate" /\ pc = "done" /\ exit_code = 0) =>
        LET d == Statements(file)
        IN  errors = d.inserted \ d.created

\* the Analyzer has just read a line
AnalyzesLine == pc = "analyze_loop" /\ Len(file') = Len(file) + 1

\* C16: a line that starts with INSERT IGNORE INTO is counted as an insert by
\* the Analyzer, as one that starts with INSERT INTO is; and a line that is
\* the text of one statement starting with a plain word, so that any keyword
\* phrase in it is at a non-start position, is counted neither as a CREATE
\* TABLE nor as an INSERT
C16_ClassifiedByStatementStart ==
    [][AnalyzesLine =>
        LET line == file'[Len(file')]
        IN  /\ (line # <<>> /\ Upper(Head(line)) \in {"INSERT INTO ", "INSERT IGNORE INTO "})
                => stats'.insert = stats.insert + 1
            /\ (line # <<>> /\ Head(line) \in TableNames /\ ~Contains(line, ";"))
                => /\ stats'.insert = stats.insert
                   /\ stats'.create_table = stats.create_table]_vars

\* ------------------------------------------------- command line claims
\* a configuration error is being raised: the missing --table of extract,
\* the missing --report of a restore from a report, the absent database of a
\* restore without --create-database
RaisesConfigurationError ==
    \/ pc = "extract" /\ raised' = "ValueError"
    \/ pc = "main" /\ options.from_report /\ ~options.report /\ exit_code' = 2
    \/ pc = "checkdb" /\ raised' = "ValueError"

\* C17: when a configuration error is raised the run has done no file I/O:
\* no decompressed copy of the input has been written
C17_ConfigurationErrorBeforeFileIO ==
    [][RaisesConfigurationError => ~temp_exists]_vars

\* C18: in every mode a run whose input path is missing or is no regular file
\* never gets past argument validation: it starts no mode work, contacts no
\* engine and creates no database
C18_InputErrorAtValidation ==
    env.input # "file" =>
        /\ pc \in {"main", "validate", "done"}
        /\ ~engine_contacted
        /\ ~db_created

\* C19: a restore from a report with a report path is not rejected by the
\* argument validation of main() and of the processor, whatever connection
\* options it lacks; a restore without from-report that lacks one of host,
\* user and database is rejected by main()
C19_FromReportNeedsNoConnectionOptions ==
    [][/\ (args.mode = "restore" /\ options.from_report /\ options.report
              /\ pc \in {"main", "validate"})
           => pc' # "done"
       /\ (args.mode = "restore" /\ ~options.from_report
              /\ RequiredDbArgs \ args.db_args # {} /\ pc = "main")
           => (pc' = "done" /\ exit_code' = 2)]_vars

\* ------------------------------------------------ scoped restore claims
\* the table a CREATE TABLE or INSERT INTO statement targets, "" for any
\* other statement
TargetOf(sql) ==
    IF Len(sql) >= 2 /\ sql[1] \in {"CREATE TABLE ", "INSERT INTO "} THEN sql[2] ELSE ""

\* C20: a restore from a report for the tables S hands the engine only
\* CREATE TABLE and INSERT statements whose target is a member of S
C20_ScopedRestoreExecutesOnlyScope ==
    (args.mode = "restore" /\ options.from_report) =>
        \A k \in 1..Len(engine_log) : TargetOf(engine_log[k].sql) \in options.tables
\* ------------------------------------------------ report and its reader
\* dict.get(key, default)
get(d, key, default) == IF key \in DOMAIN d THEN d[key] ELSE default

\* lines 287-288: the tables a restore from a report selects
tables_of_report(tables, report_data) ==
    IF tables # {} THEN tables ELSE DOMAIN get(report_data, "tables", <<>>)

\* _restore_from_report, lines 275-288, in a later run on the report the
\* run before it has left (no line of run() calls it: the specification
\* enters it directly)
RestoreFromReport ==
    /\ pc = "done"
    /\ exit_code = 0
    /\ IF ~options.report
       THEN /\ Raise("ValueError")
            /\ UNCHANGED tables_to_restore
       ELSE IF DOMAIN report_file = {}
       THEN /\ Raise("FileNotFoundError")
            /\ UNCHANGED tables_to_restore
       ELSE /\ tables_to_restore' = tables_of_report(options.tables, report_file)
            /\ pc' = "selected"
            /\ UNCHANGED <<raised, exit_code>>
    /\ UNCHANGED <<scannerVars, args, file, current_statement, statements_executed,
                   engine_log, db_present, temp_exists>>
    /\ UNCHANGED <<batchVars, envVars, parseVars, engineVars, modeVars, report_file, existing>>

\* an analyze run with --report, then a restore from its report with or
\* without --tables
InitReport ==
    /\ pc = "validate"
    /\ NoRestore
    /\ args \in ModeArgs("analyze")
    /\ \E S \in {{}, {"t"}} :
          options = [DefaultOptions EXCEPT !.report = TRUE, !.tables = S]
    /\ env = [input |-> "file", linesep |-> "LF", content |-> <<>>]
    /\ NoModeState

NextReport == NextAnalyze \/ RestoreFromReport

SpecReport == InitReport /\ [][NextReport]_vars

\* C21: when no explicit table list is given, the tables a restore selects
\* from a persisted report are the tables the Analyzer had recorded when it
\* wrote that report.
C21_ReportRoundTrip ==
    (pc = "selected" /\ options.tables = {}) =>
        tables_to_restore = DOMAIN stats.tables

\* ------------------------------------------------- files of the run
\* a split or an extract run where a file may stand at the path the
\* decompressed copy of a .gz input takes
InitFiles ==
    /\ pc = "validate"
    /\ NoRestore
    /\ \/ /\ args \in ModeArgs("split")
          /\ \E n \in 1..MaxLinesPerFile :
                options = [DefaultOptions EXCEPT !.lines_per_file = n]
          /\ env \in [input : {"file"}, linesep : {"LF"},
                      content : SeqsUpTo(SplitChars, MaxFilesChars)]
       \/ /\ args \in ModeArgs("extract")
          /\ options = [DefaultOptions EXCEPT !.table = "t"]
          /\ env = [input |-> "file", linesep |-> "LF", content |-> <<>>]
    /\ NoModeLocals
    /\ report_file = NoReport
    /\ tables_to_restore = {}
    /\ existing \in {"absent", "intact"}

SpecFiles == InitFiles /\ [][NextOutputs]_vars

\* C22: no run modifies or deletes a file that existed before the run other
\* than its output and report paths: the source file is unchanged, and for a
\* .gz input a file that stood at the path without the suffix is neither
\* overwritten nor deleted.
C22_ExistingFilesUntouched == [][env' = env /\ existing' = existing]_vars

\* ------------------------------------------------- escapes in strings
\* the Assembler over lines of quotes, backslashes, blanks and letters
EscChars == {"'", "\\", " ", "a"}
EscLines[n \in 0..(MaxEscChars - 1)] ==
    IF n = 0 THEN {<<>>} ELSE {Append(s, c) : s \in EscLines[n - 1], c \in EscChars}

NextEscape == ReadAndRestoreLine(EscLines, MaxEscChars) \/ RestoreEof

SpecEscape == InitAsm /\ [][NextEscape]_vars

\* the string region and the pending escape after the characters of a text:
\* a backslash inside a region escapes the one character after it, which
\* neither closes the region nor escapes in its turn
RECURSIVE StringFlags(_, _, _)
StringFlags(text, in_s, esc) ==
    IF text = <<>> THEN [in_string |-> in_s, escape_next |-> esc]
    ELSE IF esc THEN StringFlags(Tail(text), in_s, FALSE)
    ELSE IF in_s # ""
    THEN IF Head(text) = "\\" THEN StringFlags(Tail(text), in_s, TRUE)
         ELSE IF Head(text) = in_s THEN StringFlags(Tail(text), "", FALSE)
         ELSE StringFlags(Tail(text), in_s, FALSE)
    ELSE IF Head(text) \in Quotes THEN StringFlags(Tail(text), Head(text), FALSE)
    ELSE StringFlags(Tail(text), "", FALSE)

\* C23: inside a string region the character immediately after a backslash is
\* taken verbatim, it neither closes the region nor sets a new escape, also
\* when the backslash ends one line and the character starts the next; the
\* pending escape is set only by a backslash inside a region and is cleared
\* after exactly one following character.  After every line the region and
\* the pending escape are those of the characters of the line.
C23_EscapeTakesTheNextCharacter ==
    [][(pc = "loop" /\ Len(file') = Len(file) + 1) =>
          LET flags == StringFlags(file'[Len(file')], in_string, escape_next)
          IN  /\ in_string' = flags.in_string
              /\ escape_next' = flags.escape_next]_vars

\* ------------------------------------------------- blank statements
\* C24: the Assembler never hands a blank or comment-only statement to the
\* engine: a buffer whose cleaned content holds nothing but whitespace and
\* the terminator is discarded, not executed and not counted.
C24_NoBlankStatementExecuted ==
    \A k \in 1..Len(engine_log) :
        \E j \in 1..Len(engine_log[k].sql) :
            engine_log[k].sql[j] \notin Whitespace \cup {";"}

\* ------------------------------------------------- executed counter
\* C25: at every point of a restore, full or scoped, the executed-statement
\* counter equals the number of statements the engine has executed
\* successfully so far: a statement that failed and was skipped, or that was
\* never attempted because its batch stopped early, is not counted.
C25_CounterCountsSuccesses ==
    statements_executed + insert_count =
        Cardinality({k \in 1..Len(engine_log) : engine_log[k].ok})

\* ------------------------------------------------------ chunk count
\* a split run with any --lines-per-file argparse accepts (main.py lines
\* 52-53: type=int, no check of the sign), on an input with the line
\* separator of the platform
InitChunks ==
    /\ pc = "validate"
    /\ NoRestore
    /\ args \in [mode : {"split"}, gz : {FALSE}, skip_errors : {FALSE},
                 create_database : {FALSE}, db_args : {{}},
                 batch_size : {DefaultBatchSize}]
    /\ \E n \in (0 - MaxNegLinesPerFile)..MaxLinesPerFile :
          options = [DefaultOptions EXCEPT !.lines_per_file = n]
    /\ env \in [input : {"file"}, linesep : {"LF"},
                content : SeqsUpTo(SplitChars, MaxChunkChars)]
    /\ NoModeState

SpecChunks == InitChunks /\ [][NextSplit]_vars

\* q is the least integer not below a / n (of nothing in no chunks when n
\* is 0)
IsCeil(q, a, n) ==
    IF n > 0 THEN q * n >= a /\ (q - 1) * n < a
    ELSE IF n < 0 THEN q * n <= a /\ (q - 1) * n > a
    ELSE q = 0 /\ a = 0

\* the lines of a part
LinesOfPart(part) == Len(UniversalLines(part.text, <<>>))

\* C26: for every configured lines-per-file value n and an input of L lines,
\* the Splitter ends having written exactly ceil(L/n) parts numbered from 1;
\* every part but the last holds exactly n lines, the last between 1 and n,
\* and an empty input gives no part.  (A run that an I/O error ends is not
\* judged.)
C26_CeilOfLinesOverChunk ==
    (args.mode = "split" /\ pc = "done" /\ raised # "OSError") =>
        LET n == options.lines_per_file
            L == Len(InputLines)
        IN  /\ raised = ""
            /\ IsCeil(Len(parts), L, n)
            /\ \A k \in 1..Len(parts) :
                  IF k < Len(parts) THEN LinesOfPart(parts[k]) = n
                  ELSE LinesOfPart(parts[k]) \in 1..n

\* ------------------------------------------------------ value parsing
\* parse_values alone, on every short string of commas, quotes, backslashes
\* and letters
ParseChars == {",", "'", "\"", "\\", "a"}

\* the call: lines 4-7
CallParseValues ==
    /\ pc = "parse_call"
    /\ \E str \in SeqsUpTo(ParseChars, MaxParseLen) :
          parse' = [NoParse EXCEPT !.values_str = str, !.rest = str]
    /\ pc' = "parse_loop"
    /\ UNCHANGED <<scannerVars, runVars, batchVars, envVars, engineVars, fileVars,
                   splitVars, analyzeVars, validateVars, extractVars>>

\* one iteration of the loop of lines 9-28
ParseStep ==
    /\ pc = "parse_loop"
    /\ parse.rest # <<>>
    /\ parse' = [ParseChar(parse, Head(parse.rest)) EXCEPT !.rest = Tail(@)]
    /\ UNCHANGED <<pc, scannerVars, runVars, batchVars, envVars, engineVars, fileVars,
                   splitVars, analyzeVars, validateVars, extractVars>>

\* lines 30-33: the value left in current, then the return
ReturnParseValues ==
    /\ pc = "parse_loop"
    /\ parse.rest = <<>>
    /\ parse' = [parse EXCEPT !.values = IF parse.current # <<>>
                                          THEN Append(@, strip(parse.current))
                                          ELSE @,
                              !.returned = TRUE]
    /\ pc' = "done"
    /\ UNCHANGED <<scannerVars, runVars, batchVars, envVars, engineVars, fileVars,
                   splitVars, analyzeVars, validateVars, extractVars>>

InitParse ==
    /\ pc = "parse_call"
    /\ NoRestore
    /\ args \in [mode : {"extract"}, gz : {FALSE}, skip_errors : {FALSE},
                 create_database : {FALSE}, db_args : {{}},
                 batch_size : {DefaultBatchSize}]
    /\ options = [DefaultOptions EXCEPT !.table = "t"]
    /\ env = [input |-> "file", linesep |-> "LF", content |-> <<>>]
    /\ NoModeState

NextParse == CallParseValues \/ ParseStep \/ ReturnParseValues

SpecParse == InitParse /\ [][NextParse]_vars

\* the commas of a value list that lie outside every quoted region, a region
\* opened by a quote character ending only at the next unescaped occurrence
\* of that same character; quote is the open delimiter, "" outside a region
RECURSIVE TopLevelCommas(_, _, _)
TopLevelCommas(str, quote, escaped) ==
    IF str = <<>> THEN 0
    ELSE IF escaped THEN TopLevelCommas(Tail(str), quote, FALSE)
    ELSE IF Head(str) = "\\" THEN TopLevelCommas(Tail(str), quote, TRUE)
    ELSE IF quote # ""
    THEN TopLevelCommas(Tail(str), IF Head(str) = quote THEN "" ELSE quote, FALSE)
    ELSE IF Head(str) \in {"'", "\""} THEN TopLevelCommas(Tail(str), Head(str), FALSE)
    ELSE (IF Head(str) = "," THEN 1 ELSE 0) + TopLevelCommas(Tail(str), "", FALSE)

\* C27: value parsing splits a value list exactly at the commas outside every
\* quoted region, a comma inside a region never starts a new value even when
\* the other quote character occurs inside the region, and the number of
\* values returned is the number of such commas plus one (an empty value is
\* kept).  The empty list is not judged.
C27_SplitsAtTopLevelCommas ==
    (parse.returned /\ parse.values_str # <<>>) =>
        Len(parse.values) = TopLevelCommas(parse.values_str, "", FALSE) + 1

\* ------------------------------------------------- Analyzer counters
\* an analyze run over lines of every phrase that lines 482-497 look for
CounterTokens == SqlTokens \cup {"ALTER TABLE ", "DROP TABLE "}
CounterLines[n \in 0..(MaxCounterTokens - 1)] ==
    IF n = 0 THEN {<<>>} ELSE {Append(s, c) : s \in CounterLines[n - 1], c \in CounterTokens}

ReadAndCountLine ==
    /\ TotalChars(file) < MaxCounterTokens
    /\ \E n \in 0..(MaxCounterTokens - TotalChars(file) - 1) :
          \E line \in CounterLines[n] : AnalyzeLine(line)

NextCounters ==
    \/ ValidateArgs
    \/ DecompressIfNeeded
    \/ ReadAndCountLine
    \/ AnalyzeReadFailure
    \/ AnalyzeEof

SpecCounters == InitAnalyze /\ [][NextCounters]_vars

\* the per-kind statement counters
Kinds == {"create_table", "insert", "alter", "drop", "other"}

RECURSIVE SumOver(_, _)
SumOver(f, S) ==
    IF S = {} THEN 0
    ELSE LET k == CHOOSE x \in S : TRUE IN f[k] + SumOver(f, S \ {k})

CountersAgree(st) ==
    /\ st.total = SumOver(st, Kinds)
    /\ st.line_count >= st.total

\* C28: at every point of an Analyzer pass, after any sequence of lines, the
\* total statement counter is the sum of the create_table, insert, alter,
\* drop and other counters, every counted line increments exactly one of
\* them, and line_count is at least total.
C28_TotalIsSumOfKinds ==
    [][/\ CountersAgree(stats)
       /\ CountersAgree(stats')
       /\ stats'.total \in {stats.total, stats.total + 1}
       /\ stats'.total = stats.total + 1 =>
             \E k \in Kinds :
                /\ stats'[k] = stats[k] + 1
                /\ \A j \in Kinds \ {k} : stats'[j] = stats[j]
       /\ stats'.total = stats.total =>
             \A j \in Kinds : stats'[j] = stats[j]]_vars

\* an Analyzer pass has skipped a line and has counted, once, a line that
\* holds two of the phrases
C28_Witness ==
    /\ args.mode = "analyze"
    /\ pc = "analyze_loop"
    /\ stats.line_count > stats.total
    /\ stats.total = 1
    /\ stats.create_table = 1
    /\ \E k \in 1..Len(file) :
          Contains(file[k], "CREATE TABLE ") /\ Contains(file[k], "INSERT INTO ")

====
